---- MODULE Spec2Model ----
(***************************************************************************)
(* Adaptive tau-leaping (pyssa/tau_adaptive.py): get_HOR and tau_adaptive, *)
(* with the collaborators it calls (get_kstoc, roulette_selection,         *)
(* direct_naive, numpy's global generator).                                *)
(*                                                                         *)
(* Numbers.  Populations, stoichiometric coefficients, rate constants and  *)
(* propensities are integers (volume = 1, chem_flag = False, integer       *)
(* k_det), so "sum < 1e-30" is "sum <= 0".  Times and the quotients of the *)
(* leap-size computation are exact rationals [n, d] in lowest terms with   *)
(* d >= 0; d = 0 is the top element (numpy's inf, and HIGH = 1e20, which   *)
(* exceeds every finite time formed here).                                 *)
(***************************************************************************)
EXTENDS Integers, Sequences, FiniteSets, TLC

\* ------------------------------------------------------------------ bounds
MaxPop == 2
MaxIter == 4
MaxNc == 2
MaxRaw == 2
HorNs == 2
HorNr == 2
BigPop == 350

\* --------------------------------------------------------------- rationals
Abs(a) == IF a < 0 THEN -a ELSE a

Min2(a, b) == IF a < b THEN a ELSE b

RECURSIVE GCD(_, _)
GCD(a, b) == IF b = 0 THEN a ELSE GCD(b, a % b)

\* n/d in lowest terms, d > 0; n/0 is the top element whatever n > 0 is.
Rat(n, d) ==
    IF d = 0 THEN [n |-> 1, d |-> 0]
    ELSE LET s == IF d < 0 THEN -1 ELSE 1
             g == GCD(Abs(n), Abs(d))
         IN  [n |-> (s * n) \div g, d |-> (s * d) \div g]

\* n/d with d >= 0 but not reduced: enough for comparisons.
Frac(n, d) ==
    IF d = 0 THEN [n |-> 1, d |-> 0]
    ELSE IF d < 0 THEN [n |-> -n, d |-> -d]
    ELSE [n |-> n, d |-> d]

Zero == [n |-> 0, d |-> 1]
One == [n |-> 1, d |-> 1]
Inf == [n |-> 1, d |-> 0]

RInt(k) == [n |-> k, d |-> 1]

\* The common divisor of two denominators (1 when both are 0).
DenGCD(a, b) == IF a.d = 0 /\ b.d = 0 THEN 1 ELSE GCD(a.d, b.d)

\* a < b, cross-multiplied over the least common denominator.
RLess(a, b) ==
    LET g == DenGCD(a, b)
    IN  a.n * (b.d \div g) < b.n * (a.d \div g)

RAdd(a, b) ==
    IF a.d = 0 \/ b.d = 0 THEN Inf
    ELSE LET g == DenGCD(a, b)
         IN  Rat(a.n * (b.d \div g) + b.n * (a.d \div g), (a.d \div g) * b.d)

RSub(a, b) ==
    LET g == DenGCD(a, b)
    IN  Rat(a.n * (b.d \div g) - b.n * (a.d \div g), (a.d \div g) * b.d)

RMul(a, b) == IF a.d = 0 \/ b.d = 0 THEN Inf ELSE Rat(a.n * b.n, a.d * b.d)

\* a / k for a > 0 and an integer k >= 0: numpy gives inf for k = 0.
RDivInt(a, k) == IF k = 0 \/ a.d = 0 THEN Inf ELSE Rat(a.n, a.d * k)

\* np.nanmin of a non-empty collection of non-NaN values.
RMinSet(S) ==
    LET T == S
    IN  CHOOSE a \in T : \A b \in T : ~RLess(b, a)

\* f as a table of values rather than a rule to re-evaluate at every use.
Table(f) == IF f = <<>> THEN <<>> ELSE f

RECURSIVE Pow(_, _)
Pow(b, e) == IF e = 0 THEN 1 ELSE b * Pow(b, e - 1)

RECURSIVE SumTo(_, _)
\* f[1] + ... + f[k]
SumTo(f, k) == IF k = 0 THEN 0 ELSE f[k] + SumTo(f, k - 1)

SumSeq(f) == SumTo(f, Len(f))

\* ------------------------------------------------------------------ inputs
\* react_stoic and prod_stoic are (ns, nr): one row per species, one column
\* per reaction.
\*   decay: A -> 0,      B -> 2A
\*   pair : A + B -> 0
\*   dimer: 2A -> 0
\*   birth: A -> A + B   (net-consumes nothing)
\*   drain: A -> 0       (one species)
Stoichiometries ==
    { [react_stoic |-> << <<1, 0>>, <<0, 1>> >>, prod_stoic |-> << <<0, 2>>, <<0, 0>> >>],
      [react_stoic |-> << <<1>>, <<1>> >>,       prod_stoic |-> << <<0>>, <<0>> >>],
      [react_stoic |-> << <<2>>, <<0>> >>,       prod_stoic |-> << <<0>>, <<0>> >>],
      [react_stoic |-> << <<1>>, <<0>> >>,       prod_stoic |-> << <<1>>, <<1>> >>],
      [react_stoic |-> << <<1>> >>,              prod_stoic |-> << <<0>> >>] }

\* Deterministic rate constants k_det: all zero, all equal, a fast last
\* reaction.
RateChoices == {<<0>>, <<1>>, <<0, 0>>, <<1, 1>>, <<1, 18>>}

\* init_state: every species at 0..MaxPop; the one-species network is also
\* started with a population large enough for the leap bound
\* epsilon * x / g to reach 10.
InitStates(rs) ==
    [1..Len(rs) -> 0..MaxPop] \cup (IF Len(rs) = 1 THEN {<<BigPop>>} ELSE {})

\* max_t > 0.
MaxTChoices == {1, 3}

volume == 1

NS(rs) == Len(rs)

NR(rs) == Len(rs[1])

\* ----------------------------------------------------------------- get_HOR
MaxOf(S) == CHOOSE m \in S : \A k \in S : k <= m

\* np.sum(react_stoic, axis=0): the order of each reaction.
Orders(react_stoic) ==
    Table([j \in 1..NR(react_stoic) |->
        SumTo([i \in 1..NS(react_stoic) |-> react_stoic[i][j]], NS(react_stoic))])

\* np.where(react_stoic[ind, :] > 0): the columns in which species ind is a
\* reactant, in increasing order.
ReactantCols(react_stoic, ind) ==
    LET Test(j) == react_stoic[ind][j] > 0
    IN  SelectSeq([j \in 1..NR(react_stoic) |-> j], Test)

\* this_orders = orders[np.where(react_stoic[ind, :] > 0)]
ThisOrders(react_stoic, ind) ==
    LET cols == ReactantCols(react_stoic, ind)
    IN  [p \in 1..Len(cols) |-> Orders(react_stoic)[cols[p]]]

\* np.where(this_orders == 3): positions in the compacted vector this_orders.
\* The code then uses these positions as column numbers of react_stoic.
Order3Index(react_stoic, ind) ==
    {p \in 1..Len(ThisOrders(react_stoic, ind)) : ThisOrders(react_stoic, ind)[p] = 3}

\* The highest order alone, without the codes for repeated reactants.
HORofPlainMaximum(react_stoic, ind) ==
    LET this_orders == ThisOrders(react_stoic, ind)
    IN  IF Len(this_orders) = 0 THEN 0
        ELSE MaxOf({this_orders[p] : p \in 1..Len(this_orders)})

\* The body of the loop over ind.
HORof(react_stoic, ind) ==
    LET orders == Orders(react_stoic)
        this_orders == ThisOrders(react_stoic, ind)
        hor0 == MaxOf({this_orders[p] : p \in 1..Len(this_orders)})
        order_2_indices == {j \in 1..NR(react_stoic) : orders[j] = 2}
        hor2 == IF order_2_indices # {}
                   /\ MaxOf({react_stoic[ind][j] : j \in order_2_indices}) = 2
                   /\ hor0 = 2
                THEN -2 ELSE hor0
        max3 == MaxOf({react_stoic[ind][p] : p \in Order3Index(react_stoic, ind)})
    IN  IF Len(this_orders) = 0 THEN 0
        ELSE IF hor0 = 1 THEN 1
        ELSE IF hor2 = 3 /\ max3 = 2 THEN -32
        ELSE IF hor2 = 3 /\ max3 = 3 THEN -3
        ELSE hor2

get_HOR(react_stoic) ==
    Table([ind \in 1..NS(react_stoic) |-> HORof(react_stoic, ind)])

\* ------------------------------------------------- collaborators (utils.py)
\* get_kstoc: the stochastic rate constants; with volume = 1 and
\* chem_flag = False the volume/Avogadro scaling volume^(order - 1) is 1.
get_kstoc(react_stoic, k_det) ==
    LET orders == Orders(react_stoic)
    IN  Table([j \in 1..NR(react_stoic) |-> k_det[j] \div Pow(volume, orders[j])])

\* One value of the generator's stream stands for a class of uniform draws U:
\* raw 0 is a U below exp(-10), raw r >= 1 a U of about exp(-1/4^(r-1)).
RawVals == 0..MaxRaw

\* log(1 / U)
LogInv(raw) == IF raw = 0 THEN RInt(11) ELSE Frac(1, Pow(4, raw - 1))

\* U itself, where a draw is compared with cumulative probabilities.
Uniform(raw) ==
    IF raw = 0 THEN Frac(1, 60000)
    ELSE IF raw = 1 THEN Frac(3, 8)
    ELSE IF raw = 2 THEN Frac(7, 9)
    ELSE Frac(15, 16)

\* np.random.poisson(lam) for lam > 0: every count has positive probability;
\* the count grows with the uniform draw behind it.
Poisson(raw) == raw

\* roulette_selection(prop_list, Xt) on a total > 0: the first reaction whose
\* cumulative share of the total reaches the uniform draw.
RouletteChoice(prop_list, raw) ==
    LET total == SumSeq(prop_list)
        u == Uniform(raw)
        Hit(j) == u.n * total <= u.d * SumTo(prop_list, j)
    IN  CHOOSE j \in 1..Len(prop_list) :
            Hit(j) /\ \A i \in 1..(j - 1) : ~Hit(i)

\* --------------------------------------------------- tau_adaptive, per step
\* v = prod_stoic - react_stoic
NetStoic(net) ==
    Table([i \in 1..NS(net.react_stoic) |->
        Table([j \in 1..NR(net.react_stoic) |-> net.prod_stoic[i][j] - net.react_stoic[i][j]])])

\* prop[ind1] = kstoc[ind1] * prod over ind2 of x[ind2] ** react_stoic[ind2, ind1]
RECURSIVE PowerProduct(_, _, _, _)
PowerProduct(react_stoic, xs, ind1, ind2) ==
    IF ind2 = 0 THEN 1
    ELSE Pow(xs[ind2], react_stoic[ind2][ind1])
         * PowerProduct(react_stoic, xs, ind1, ind2 - 1)

Propensities(net, xs) ==
    LET kstoc == get_kstoc(net.react_stoic, net.k_det)
    IN  Table([ind1 \in 1..NR(net.react_stoic) |->
            kstoc[ind1] * PowerProduct(net.react_stoic, xs, ind1, NS(net.react_stoic))])

\* prop_sum < 1e-30, on integers
Negligible(s) == s <= 0

\* The species on which a reaction with net column vis has vis < 0.
Consumed(v, ind) == {i \in 1..Len(v) : v[i][ind] < 0}

\* np.nanmin of an empty selection raises ValueError.
LRaises(net) ==
    LET v == NetStoic(net)
    IN  \E ind \in 1..NR(net.react_stoic) : Consumed(v, ind) = {}

\* The largest of the quotients, not the smallest.
LValOfLargest(v, xs, ind) ==
    LET T == {Frac(xs[i], Abs(v[i][ind])) : i \in Consumed(v, ind)}
    IN  CHOOSE a \in T : \A b \in T : ~RLess(a, b)

\* L[ind] = np.nanmin(x[ite - 1, vis < 0] / abs(vis[vis < 0]))
LVal(v, xs, ind) ==
    RMinSet({Frac(xs[i], Abs(v[i][ind])) : i \in Consumed(v, ind)})

\* Criticality by L alone, whatever the propensity.
CritSetIgnoringPropensity(net, xs, nc) ==
    LET v == NetStoic(net)
    IN  {ind \in 1..NR(net.react_stoic) : RLess(LVal(v, xs, ind), RInt(nc))}

\* crit = (L < nc) * (prop > 0), as the set of critical reactions
CritSet(net, xs, nc) ==
    LET v == NetStoic(net)
        p == Propensities(net, xs)
    IN  {ind \in 1..NR(net.react_stoic) : RLess(LVal(v, xs, ind), RInt(nc)) /\ p[ind] > 0}

\* not_crit = ~crit
NotCrit(net, xs, nc) == (1..NR(net.react_stoic)) \ CritSet(net, xs, nc)

\* react_species = np.where(np.sum(react_stoic, axis=1) > 0)[0]
ReactSpecies(react_stoic) ==
    {i \in 1..NS(react_stoic) : SumSeq(react_stoic[i]) > 0}

epsilon == [n |-> 3, d |-> 100]

\* g for species value xi and code hor.  "x is not 1" compares identities and
\* is always true, so codes -2 and -32 divide by x - 1 = 0 at x = 1 (inf).
GVal(hor, xi) ==
    IF hor > 0 THEN RInt(hor)
    ELSE IF hor = -2 THEN
        (IF xi = 1 THEN Inf ELSE Frac(xi + 1, xi - 1))
    ELSE IF hor = -3 THEN
        (IF xi \in {1, 2} THEN RInt(3)
         ELSE Frac(3 * xi * xi - 6 * xi + 2, (xi - 1) * (xi - 2)))
    ELSE \* hor = -32
        (IF xi = 1 THEN Inf ELSE Frac(3 * (2 * xi - 1), 2 * (xi - 1)))

\* tau_num[ind] = max(epsilon * x / g, 1)
TauNum(hor, xi) ==
    LET g == GVal(hor, xi)
        q == IF g.d = 0 THEN Zero
             ELSE IF g.n = 0 THEN (IF xi > 0 THEN Inf ELSE RInt(-1))
             ELSE Frac(epsilon.n * xi * g.d, epsilon.d * g.n)
    IN  IF RLess(One, q) THEN q ELSE One

\* mup[ind] = np.sum(v[species_index, not_crit] * prop[not_crit])
Mup(v, p, nots, i) ==
    SumTo([j \in 1..Len(p) |-> IF j \in nots THEN v[i][j] * p[j] ELSE 0], Len(p))

\* sigp[ind] = np.sum(v[species_index, not_crit] * temp)
Sigp(v, p, nots, i) ==
    SumTo([j \in 1..Len(p) |-> IF j \in nots THEN v[i][j] * v[i][j] * p[j] ELSE 0], Len(p))

\* HIGH = 1e20
HIGH == Inf

\* taup: HIGH when every reaction is critical, else the nanmin over the
\* reactive species of tau_num / |mup| and tau_num^2 / |sigp|.
Taup(net, xs, nc, hor) ==
    LET v == NetStoic(net)
        p == Propensities(net, xs)
        nots == NotCrit(net, xs, nc)
    IN  IF nots = {} THEN HIGH
        ELSE RMinSet(UNION {
                LET tn == TauNum(hor[i], xs[i])
                IN  { RDivInt(tn, Abs(Mup(v, p, nots, i))),
                      RDivInt(RMul(tn, tn), Abs(Sigp(v, p, nots, i))) }
                : i \in ReactSpecies(net.react_stoic) })

\* ------------------------------------------------------------------- state
VARIABLES
    net,        \* react_stoic, prod_stoic, k_det
    init_state, nc, max_t, max_iter,
    pc,         \* "start", "loop", "ssa", "done"; "hor", "hor_done" for get_HOR alone
    ite,        \* iteration cursor
    t, x,       \* the pre-allocated buffers, indexed 0..max_iter-1
    HOR,
    status,     \* 0 until a status code is set
    exc,        \* "none", or the exception that ended the call
    ret_rows,   \* rows of the returned t and x; -1 until the call returns
    stream,     \* the values the seeded generator yields, as far as drawn
    pos,        \* the generator's position in its stream
    ssa,        \* the delegated direct_naive call
    step,       \* the last pass of the loop: its kind, crit and K
    call,       \* 1 for the first call, 2 for a repeated call
    first       \* what the first call returned

vars == <<net, init_state, nc, max_t, max_iter, pc, ite, t, x, HOR, status, exc,
          ret_rows, stream, pos, ssa, step, call, first>>

inputs == <<net, init_state, nc, max_t, max_iter>>

Networks ==
    {[react_stoic |-> s.react_stoic, prod_stoic |-> s.prod_stoic, k_det |-> k] :
        s \in Stoichiometries, k \in RateChoices}

ValidNet(n) == Len(n.k_det) = NR(n.react_stoic)

NoSsa == [status |-> 0, ite |-> 0, max_iter |-> 0, max_t |-> Zero,
          t_curr |-> Zero, xt |-> <<>>, t |-> <<>>, x |-> <<>>]

NoStep == [kind |-> "none", crit |-> {}, K |-> <<>>]

NoResult == [t |-> <<>>, x |-> <<>>, status |-> 0, exc |-> "none"]

Locals ==
    /\ ite = 0
    /\ t = <<>>
    /\ x = <<>>
    /\ HOR = <<>>
    /\ status = 0
    /\ exc = "none"
    /\ ret_rows = -1
    /\ ssa = NoSsa
    /\ step = NoStep

Init ==
    /\ net \in {n \in Networks : ValidNet(n)}
    /\ init_state \in InitStates(net.react_stoic)
    /\ nc \in 1..MaxNc
    /\ max_t \in MaxTChoices
    /\ max_iter \in 1..MaxIter
    /\ pc = "start"
    /\ Locals
    /\ stream = <<>>
    /\ pos = 1
    /\ call = 1
    /\ first = NoResult

\* ---------------------------------------------------------- the generator
\* The next n values of the stream from pos on: those already drawn are
\* fixed, the others are free.
DrawSeqs(n) ==
    {d \in [1..n -> RawVals] :
        \A k \in 1..n : pos + k - 1 <= Len(stream) => d[k] = stream[pos + k - 1]}

Drawn(d) ==
    LET last == pos + Len(d) - 1
        len == IF last > Len(stream) THEN last ELSE Len(stream)
    IN  /\ stream' = [k \in 1..len |-> IF k <= Len(stream) THEN stream[k] ELSE d[k - pos + 1]]
        /\ pos' = pos + Len(d)

\* A generator that keeps its position: the seed is not applied.
NotReseeded == UNCHANGED <<stream, pos>>

\* Line 138: np.random.seed(seed)
Reseed == pos' = 1 /\ UNCHANGED stream

\* direct_naive seeds the global generator with the seed it is given.
SsaReseed == pos' = 1 /\ UNCHANGED stream

\* ------------------------------------------------------------ tau_adaptive
xcur == x[ite - 1]

prop == Propensities(net, xcur)

prop_sum == SumSeq(prop)

Return(st, rows) ==
    /\ status' = st
    /\ ret_rows' = rows
    /\ pc' = "done"

Raise(e) ==
    /\ exc' = e
    /\ pc' = "done"
    /\ UNCHANGED <<status, ret_rows>>

\* The early test with the population compared the wrong way round.
EarlyStuckInverted ==
    /\ Negligible(SumSeq(get_kstoc(net.react_stoic, net.k_det)))
    /\ Negligible(SumSeq(init_state))

\* Lines 150-151: np.sum(prop) < 1e-30 and np.sum(x[ite - 1, :]) > 1e-30
EarlyStuck ==
    /\ Negligible(SumSeq(get_kstoc(net.react_stoic, net.k_det)))
    /\ ~Negligible(SumSeq(init_state))

\* Lines 128-164: the set-up and the early "propensity zero" return.
Call ==
    /\ pc = "start"
    /\ ite' = 1
    /\ x' = [i \in 0..(max_iter - 1) |->
                IF i = 0 THEN init_state ELSE [s \in 1..NS(net.react_stoic) |-> 0]]
    /\ t' = [i \in 0..(max_iter - 1) |-> Zero]
    /\ Reseed
    /\ HOR' = get_HOR(net.react_stoic)
    /\ IF EarlyStuck
       THEN Return(-2, 1)
       ELSE pc' = "loop" /\ UNCHANGED <<status, ret_rows>>
    /\ UNCHANGED <<inputs, exc, ssa, step, call, first>>

\* Line 166 false, lines 281-282.
LoopExit ==
    /\ pc = "loop"
    /\ ~(ite < max_iter)
    /\ Return(1, ite)
    /\ UNCHANGED <<inputs, ite, t, x, HOR, exc, stream, pos, ssa, step, call, first>>

\* Lines 170-178.
Extinct ==
    /\ pc = "loop"
    /\ ite < max_iter
    /\ Negligible(prop_sum)
    /\ Return(3, ite)
    /\ UNCHANGED <<inputs, ite, t, x, HOR, exc, stream, pos, ssa, step, call, first>>

\* Lines 179-181: np.nanmin over the empty selection of a reaction that
\* net-consumes nothing.
NanminError ==
    /\ pc = "loop"
    /\ ite < max_iter
    /\ ~Negligible(prop_sum)
    /\ LRaises(net)
    /\ Raise("ValueError")
    /\ UNCHANGED <<inputs, ite, t, x, HOR, stream, pos, ssa, step, call, first>>

crit == CritSet(net, xcur, nc)

not_crit == NotCrit(net, xcur, nc)

taup == Taup(net, xcur, nc, HOR)

\* Line 223: taup < 10 / prop_sum
SmallTaup == RLess(taup, Frac(10, prop_sum))

\* Line 244: taupp = 1 / prop_sum * np.log(1 / np.random.rand())
Taupp(raw, psum) == RDivInt(LogInv(raw), psum)

\* np.random.poisson raises ValueError on lam < 0: the first non-critical
\* reaction with a negative propensity, or 0 when there is none.
FirstNegLam(p, nots) ==
    LET bad == {j \in nots : p[j] < 0}
    IN  IF bad = {} THEN 0 ELSE CHOOSE j \in bad : \A i \in bad : j <= i

\* The non-critical reactions whose Poisson call draws (lam > 0) before the
\* loop over ind ends or raises.
PoissonCalls(p, nots) ==
    {j \in nots : p[j] > 0 /\ (FirstNegLam(p, nots) = 0 \/ j < FirstNegLam(p, nots))}

\* Lines 249-253 and 261-267: K, given the draws d, of which the first `used`
\* are spent before the loop over ind, and the critical reaction to fire
\* (0 for none).
Firings(d, used, j_crit, p, nots) ==
    LET calls == PoissonCalls(p, nots)
    IN  Table([ind \in 1..Len(p) |->
            IF ind \in nots
            THEN (IF p[ind] > 0
                  THEN Poisson(d[used + Cardinality({j \in calls : j <= ind})])
                  ELSE 0)
            ELSE IF ind = j_crit THEN 1 ELSE 0])

\* A product that takes the magnitudes of the net changes.
DotOfMagnitudes(v, K) ==
    Table([i \in 1..Len(v) |-> SumTo([j \in 1..Len(K) |-> Abs(v[i][j]) * K[j]], Len(K))])

\* np.dot(v, K)
Dot(v, K) ==
    Table([i \in 1..Len(v) |-> SumTo([j \in 1..Len(K) |-> v[i][j] * K[j]], Len(K))])

\* Line 278: t[ite] > max_t, read after ite += 1
ExitTest(tnew) == RLess(RInt(max_t), tnew[ite + 1])

\* Lines 273-280: record the new point, advance the cursor, then test the
\* time buffer at the advanced cursor.
Commit(K, tau) ==
    LET dx == Dot(NetStoic(net), K)
    IN  /\ x' = [x EXCEPT ![ite] = [i \in 1..Len(xcur) |-> xcur[i] + dx[i]]]
        /\ t' = [t EXCEPT ![ite] = RAdd(t[ite - 1], tau)]
        /\ ite' = ite + 1
        /\ IF ite + 1 > max_iter - 1
           THEN Raise("IndexError")
           ELSE IF ExitTest(t')
           THEN Return(2, ite + 1) /\ UNCHANGED exc
           ELSE pc' = "loop" /\ UNCHANGED <<status, ret_rows, exc>>

StepGuard ==
    /\ pc = "loop"
    /\ ite < max_iter
    /\ ~Negligible(prop_sum)
    /\ ~LRaises(net)
    /\ ~SmallTaup

\* Lines 247-253, then 273-280: the leap.
Leap ==
    /\ StepGuard
    /\ LET p == prop
           psum == SumSeq(p)
           c == crit
           nots == (1..Len(p)) \ c
           tp == taup
           neg == FirstNegLam(p, nots)
       IN  \E d \in DrawSeqs(1 + Cardinality(PoissonCalls(p, nots))) :
            /\ RLess(tp, Taupp(d[1], psum))
            /\ Drawn(d)
            /\ step' = [kind |-> "leap", crit |-> c,
                        K |-> IF neg # 0 THEN <<>> ELSE Firings(d, 1, 0, p, nots)]
            /\ IF neg # 0
               THEN Raise("ValueError") /\ UNCHANGED <<ite, t, x>>
               ELSE Commit(Firings(d, 1, 0, p, nots), tp)
    /\ UNCHANGED <<inputs, HOR, ssa, call, first>>

\* Lines 254-267, then 273-280: the exact-step interval with one critical
\* firing.  roulette_selection draws only when some propensity is positive.
ExactStep ==
    /\ StepGuard
    /\ LET p == prop
           psum == SumSeq(p)
           c == crit
           nots == (1..Len(p)) \ c
           tp == taup
           neg == FirstNegLam(p, nots)
           nroul == IF c = {} THEN 0 ELSE 1
           temp == [j \in 1..Len(p) |-> IF j \in nots THEN 0 ELSE p[j]]
       IN  \E d \in DrawSeqs(1 + nroul + Cardinality(PoissonCalls(p, nots))) :
            LET j_crit == IF c = {} THEN 0 ELSE RouletteChoice(temp, d[2])
                K == Firings(d, 1 + nroul, j_crit, p, nots)
            IN  /\ ~RLess(tp, Taupp(d[1], psum))
                /\ Drawn(d)
                /\ step' = [kind |-> "exact", crit |-> c,
                            K |-> IF neg # 0 THEN <<>> ELSE K]
                /\ IF neg # 0
                   THEN Raise("ValueError") /\ UNCHANGED <<ite, t, x>>
                   ELSE Commit(K, Taupp(d[1], psum))
    /\ UNCHANGED <<inputs, HOR, ssa, call, first>>

\* ------------------------------------------- direct_naive (direct_naive.py)
\* The exact engine as the design describes it: a clock of its own starting
\* at 0, the initial point recorded first, one reaction per iteration.

\* A budget of the whole buffer, not of what is left of it.
BurstBudgetOfWholeBuffer == Min2(100, max_iter)

\* Line 230: max_iter=min(100, max_iter - ite)
BurstBudget == Min2(100, max_iter - ite)

\* Lines 223-234: the call, which re-seeds the global generator.
BurstCall ==
    /\ pc = "loop"
    /\ ite < max_iter
    /\ ~Negligible(prop_sum)
    /\ ~LRaises(net)
    /\ SmallTaup
    /\ ssa' = [status |-> 0, ite |-> 1,
               max_iter |-> BurstBudget,
               max_t |-> RSub(RInt(max_t), t[ite - 1]),
               t_curr |-> Zero, xt |-> xcur,
               t |-> <<Zero>>, x |-> <<xcur>>]
    /\ SsaReseed
    /\ step' = [kind |-> "burst", crit |-> crit, K |-> <<>>]
    /\ pc' = "ssa"
    /\ UNCHANGED <<inputs, ite, t, x, HOR, status, exc, ret_rows, call, first>>

ssa_prop == Propensities(net, ssa.xt)

\* One iteration: waiting time, roulette, update, validation, time budget.
SSAStep ==
    /\ pc = "ssa"
    /\ ssa.status = 0
    /\ ssa.ite < ssa.max_iter
    /\ ~Negligible(SumSeq(ssa_prop))
    /\ \E d \in DrawSeqs(2) :
        LET dt == RDivInt(LogInv(d[1]), SumSeq(ssa_prop))
            j == RouletteChoice(ssa_prop, d[2])
            v == NetStoic(net)
            xn == [i \in 1..Len(ssa.xt) |-> ssa.xt[i] + v[i][j]]
            tn == RAdd(ssa.t_curr, dt)
        IN  /\ Drawn(d)
            /\ IF \E i \in 1..Len(xn) : xn[i] < 0
               THEN ssa' = [ssa EXCEPT !.status = -3]
               ELSE ssa' = [ssa EXCEPT !.xt = xn, !.t_curr = tn,
                                       !.x = Append(@, xn), !.t = Append(@, tn),
                                       !.ite = @ + 1,
                                       !.status = IF RLess(ssa.max_t, tn) THEN 2 ELSE 0]
    /\ UNCHANGED <<inputs, pc, ite, t, x, HOR, status, exc, ret_rows, step, call, first>>

\* The iteration budget is used up (1), or no reaction can fire: extinction
\* (3) when no reactive species is left, stuck (-2) otherwise.
SSAStop ==
    /\ pc = "ssa"
    /\ ssa.status = 0
    /\ ssa' = [ssa EXCEPT !.status =
                  IF ~(ssa.ite < ssa.max_iter) THEN 1
                  ELSE IF \A i \in ReactSpecies(net.react_stoic) : ssa.xt[i] <= 0 THEN 3
                  ELSE -2]
    /\ ~(ssa.ite < ssa.max_iter) \/ Negligible(SumSeq(ssa_prop))
    /\ UNCHANGED <<inputs, pc, ite, t, x, HOR, status, exc, ret_rows, stream, pos,
                   step, call, first>>

\* Lines 235-241: the burst is appended; status 2 or 3 ends the run with
\* the whole buffers returned.
BurstReturn ==
    /\ pc = "ssa"
    /\ ssa.status # 0
    /\ LET len_simulation == Len(ssa.t)
       IN  /\ t' = [i \in 0..(max_iter - 1) |->
                      IF i >= ite /\ i < ite + len_simulation THEN ssa.t[i - ite + 1] ELSE t[i]]
           /\ x' = [i \in 0..(max_iter - 1) |->
                      IF i >= ite /\ i < ite + len_simulation THEN ssa.x[i - ite + 1] ELSE x[i]]
           /\ ite' = ite + len_simulation
    /\ IF ssa.status = 3 \/ ssa.status = 2
       THEN Return(ssa.status, max_iter)
       ELSE pc' = "loop" /\ UNCHANGED <<status, ret_rows>>
    /\ ssa' = NoSsa
    /\ UNCHANGED <<inputs, HOR, exc, stream, pos, step, call, first>>

\* ------------------------------------------------------------ specification
Next ==
    \/ Call
    \/ LoopExit
    \/ Extinct
    \/ NanminError
    \/ BurstCall
    \/ SSAStep
    \/ SSAStop
    \/ BurstReturn
    \/ Leap
    \/ ExactStep

Spec == Init /\ [][Next]_vars

\* ------------------------------------------------- a repeated call (C9)
\* What a call hands back: the returned rows, the status, the exception.
Result ==
    [t |-> [i \in 1..(IF ret_rows < 0 THEN 0 ELSE ret_rows) |-> t[i - 1]],
     x |-> [i \in 1..(IF ret_rows < 0 THEN 0 ELSE ret_rows) |-> x[i - 1]],
     status |-> status,
     exc |-> exc]

\* The caller keeps the first result and calls again with the same
\* arguments; numpy's global generator is where the first call left it.
Recall ==
    /\ pc = "done"
    /\ call = 1
    /\ first' = Result
    /\ call' = 2
    /\ pc' = "start"
    /\ ite' = 0
    /\ t' = <<>>
    /\ x' = <<>>
    /\ HOR' = <<>>
    /\ status' = 0
    /\ exc' = "none"
    /\ ret_rows' = -1
    /\ ssa' = NoSsa
    /\ step' = NoStep
    /\ UNCHANGED <<inputs, stream, pos>>

NextTwo == Next \/ Recall

SpecTwo == Init /\ [][NextTwo]_vars

\* ------------------------------------------------- get_HOR on its own
MaxOrder == 3

\* The columns a reaction of order <= 3 can have.
ColSum(m, j) == SumTo([i \in 1..Len(m) |-> m[i][j]], Len(m))

HorMatrices ==
    {m \in [1..HorNs -> [1..HorNr -> 0..MaxOrder]] :
        \A j \in 1..HorNr : ColSum(m, j) <= MaxOrder}

InitHOR ==
    /\ \E m \in HorMatrices :
        net = [react_stoic |-> m,
               prod_stoic |-> [i \in 1..HorNs |-> [j \in 1..HorNr |-> 0]],
               k_det |-> [j \in 1..HorNr |-> 1]]
    /\ init_state = [i \in 1..HorNs |-> 0]
    /\ nc = 1
    /\ max_t = 1
    /\ max_iter = 1
    /\ pc = "hor"
    /\ Locals
    /\ stream = <<>>
    /\ pos = 1
    /\ call = 1
    /\ first = NoResult

\* HOR = get_HOR(react_stoic)
HorCall ==
    /\ pc = "hor"
    /\ HOR' = get_HOR(net.react_stoic)
    /\ pc' = "hor_done"
    /\ UNCHANGED <<inputs, ite, t, x, status, exc, ret_rows, stream, pos, ssa, step,
                   call, first>>

SpecHOR == InitHOR /\ [][HorCall]_vars

\* ------------------------------------------------------------------ claims
Recorded == 0..(ite - 1)

NegativeAt(i) == \E s \in 1..Len(x[i]) : x[i][s] < 0

\* C1: a recorded state with a negative entry ends the run at that point
\* with status -3: while no exception has ended the call, a negative entry
\* among the recorded states means the call is over with status -3.
C1_NegativeEndsRun ==
    (exc = "none" /\ \E i \in Recorded : NegativeAt(i))
        => (pc = "done" /\ status = -3)

\* C2: the recorded times are non-decreasing along the whole trajectory.
C2_TimesNonDecreasing ==
    \A i \in Recorded : i > 0 => ~RLess(t[i], t[i - 1])

\* C3: a recorded time above max_t is the last recorded point and ends the
\* run with status 2.
C3_TimeBudgetEndsRun ==
    exc = "none" =>
        \A i \in Recorded :
            RLess(RInt(max_t), t[i]) => (i = ite - 1 /\ pc = "done" /\ status = 2)

\* C4: no buffer access is out of range, and a call that ends with the
\* cursor at max_iter and no other terminal condition returns status 1 with
\* max_iter rows.
C4_IterationBudget ==
    /\ exc # "IndexError"
    /\ (pc = "done" /\ ite = max_iter /\ exc = "none" /\ status \notin {2, 3, -2, -3})
           => (status = 1 /\ ret_rows = max_iter)

\* C5: on every return path the returned arrays have as many rows as points
\* were recorded.
C5_ReturnTruncated ==
    (pc = "done" /\ exc = "none") => ret_rows = ite

\* C6: status 3 is returned only with every reactive species at 0 in the
\* last recorded state.
C6_ExtinctMeansDepleted ==
    (pc = "done" /\ status = 3) =>
        \A i \in ReactSpecies(net.react_stoic) : x[ite - 1][i] = 0

AllRatesZero == \A j \in 1..Len(net.k_det) : net.k_det[j] = 0

ReactivePresent == \E i \in ReactSpecies(net.react_stoic) : init_state[i] > 0

\* C7: with all rate constants zero and a reactive species present, the call
\* returns -2 before any step, with the single initial point.
C7_NullNetworkStuck ==
    (AllRatesZero /\ ReactivePresent /\ pc # "start") =>
        /\ pc = "done"
        /\ status = -2
        /\ exc = "none"
        /\ step = NoStep
        /\ Result.t = <<Zero>>
        /\ Result.x = <<init_state>>

C7_Witness ==
    /\ AllRatesZero
    /\ ReactivePresent
    /\ pc = "done"
    /\ status = -2
    /\ max_iter > 1

\* No reaction produces a species that some reaction consumes, and every
\* reaction has a positive rate constant.
ConsumeOnly ==
    /\ \A i \in ReactSpecies(net.react_stoic) :
          \A j \in 1..NR(net.react_stoic) : net.prod_stoic[i][j] = 0
    /\ \A j \in 1..NR(net.react_stoic) :
          net.k_det[j] > 0 /\ Orders(net.react_stoic)[j] > 0

AllReactivePresent == \A i \in ReactSpecies(net.react_stoic) : init_state[i] > 0

\* C8: a consume-only network started with every reactive species present,
\* when the call ends for any reason but a budget, has ended with status 3
\* and every reactive species at 0.
C8_ConsumeOnlyExtinct ==
    (ConsumeOnly /\ AllReactivePresent /\ pc = "done" /\ exc = "none"
        /\ status \notin {1, 2}) =>
        /\ status = 3
        /\ \A i \in ReactSpecies(net.react_stoic) : x[ite - 1][i] = 0

\* C9: a repeated call with the same arguments and seed returns what the
\* first call returned.
C9_Reproducible ==
    (call = 2 /\ pc = "done") => Result = first

C9_Witness ==
    /\ call = 2
    /\ pc = "done"
    /\ step.kind = "burst"
    /\ Len(stream) >= 4
    /\ ret_rows >= 3
    /\ \E i \in 1..(ret_rows - 1) : x[i] # x[0]

HighestOrder(m, i) ==
    MaxOf({0} \cup {ColSum(m, j) : j \in {c \in 1..Len(m[1]) : m[i][c] > 0}})

CoefInOrder3(m, i, c) ==
    \E j \in 1..Len(m[1]) : ColSum(m, j) = 3 /\ m[i][j] = c

\* C10: a species whose highest reaction order is 3 gets -32 when it has
\* coefficient 2 in an order-3 reaction, -3 when it has coefficient 3 in
\* one, and 3 otherwise.
C10_HOROrder3 ==
    pc = "hor_done" =>
        \A i \in 1..Len(net.react_stoic) :
            HighestOrder(net.react_stoic, i) = 3 =>
                /\ (CoefInOrder3(net.react_stoic, i, 2) /\ ~CoefInOrder3(net.react_stoic, i, 3))
                      => HOR[i] = -32
                /\ (CoefInOrder3(net.react_stoic, i, 3) /\ ~CoefInOrder3(net.react_stoic, i, 2))
                      => HOR[i] = -3
                /\ (~CoefInOrder3(net.react_stoic, i, 2) /\ ~CoefInOrder3(net.react_stoic, i, 3))
                      => HOR[i] = 3

\* The firing-count vectors one step can have: a Poisson count is at most
\* MaxRaw, a critical or exact firing is 1.
FiringCounts == [1..NR(net.react_stoic) -> 0..(MaxRaw + 1)]

WholeFirings(a, b) ==
    \E K \in FiringCounts :
        LET v == NetStoic(net)
        IN  \A i \in 1..Len(a) :
                b[i] = a[i] + SumTo([j \in 1..Len(K) |-> v[i][j] * K[j]], Len(K))

\* C11: each recorded state is its predecessor plus net_stoic times a vector
\* of non-negative whole firing counts, for leap steps, burst steps and the
\* point where a burst is appended.
C11_WholeFirings ==
    (pc \in {"loop", "ssa", "done"}) =>
        \A i \in Recorded : i > 0 => WholeFirings(x[i - 1], x[i])

C11_Witness ==
    /\ pc \in {"loop", "done"}
    /\ step.kind = "burst"
    /\ ite >= 4
    /\ x[1] # x[0]
    /\ x[2] = x[1]
    /\ x[3] # x[2]

\* C12: a delegated burst is given at most the rows the parent's buffer has
\* left, the points it collects fit in them, and the cursor never passes
\* max_iter, so no burst point lands at an index >= max_iter.
C12_BurstFits ==
    /\ pc = "ssa" =>
          /\ ssa.max_iter = Min2(100, max_iter - ite)
          /\ Len(ssa.t) <= ssa.max_iter
          /\ ite + Len(ssa.t) <= max_iter
    /\ pc \in {"loop", "done"} => ite <= max_iter

C12_Witness ==
    /\ pc \in {"loop", "done"}
    /\ step.kind = "burst"
    /\ ite = max_iter
    /\ max_iter >= 3
    /\ x[ite - 1] # x[ite - 2]

\* C13: a step that commits the exact-step interval fires exactly one
\* critical reaction, once, and no other critical reaction, also when no
\* reaction is critical.
C13_ExactStepFiresOneCritical ==
    (step.kind = "exact" /\ step.K # <<>>) =>
        \E j \in step.crit :
            /\ step.K[j] = 1
            /\ \A i \in step.crit \ {j} : step.K[i] = 0

\* The state a committed step started from, and its propensities.
StepFrom == x[ite - 2]

StepProp == Propensities(net, StepFrom)

Committed == step.kind \in {"leap", "exact"} /\ step.K # <<>>

\* C14: in a committed step the critical reactions fire at most once in
\* total, and not at all when the leap interval is the smaller one; a
\* reaction with propensity 0 is not critical and fires 0 times.
C14_CriticalFireAtMostOnce ==
    Committed =>
        /\ SumTo([j \in 1..Len(step.K) |-> IF j \in step.crit THEN step.K[j] ELSE 0],
                 Len(step.K)) <= 1
        /\ step.kind = "leap" => \A j \in step.crit : step.K[j] = 0
        /\ \A j \in 1..Len(step.K) :
              StepProp[j] = 0 => j \notin step.crit /\ step.K[j] = 0

C14_Witness ==
    /\ Committed
    /\ step.kind = "leap"
    /\ step.crit # {}
    /\ \E j \in 1..Len(step.K) : j \notin step.crit /\ step.K[j] > 0

\* min over the consumed species of floor(x[i] / |net_stoic[i, j]|)
FloorL(v, xs, j) ==
    LET Q == {xs[i] \div Abs(v[i][j]) : i \in Consumed(v, j)}
    IN  CHOOSE q \in Q : \A r \in Q : q <= r

NonNegative(xs) == \A i \in 1..Len(xs) : xs[i] >= 0

\* C15: on a non-negative state a reaction that net-consumes some species is
\* marked critical exactly when the floor-based L is below nc and its
\* propensity is positive.
C15_CriticalIffFloorBelowNc ==
    (pc = "loop" /\ ite < max_iter /\ NonNegative(xcur) /\ ~LRaises(net)) =>
        \A j \in 1..NR(net.react_stoic) :
            Consumed(NetStoic(net), j) # {} =>
                (j \in crit <=> (FloorL(NetStoic(net), xcur, j) < nc /\ prop[j] > 0))

C15_Witness ==
    /\ pc = "loop"
    /\ ite < max_iter
    /\ NonNegative(xcur)
    /\ ~LRaises(net)
    /\ \E j \in crit : \E i \in Consumed(NetStoic(net), j) :
          xcur[i] % Abs(NetStoic(net)[i][j]) # 0

CoefInOrder2(m, i, c) ==
    \E j \in 1..Len(m[1]) : ColSum(m, j) = 2 /\ m[i][j] = c

AllOrdersAtMost2(m) == \A j \in 1..Len(m[1]) : ColSum(m, j) <= 2

\* C16: with every reaction of order <= 2, get_HOR gives 0 to a species
\* that is no reactant, 1 to one whose highest order is 1, -2 to one whose
\* highest order is 2 with coefficient 2 in an order-2 reaction, and 2 to
\* every other species of highest order 2.
C16_HOROrderAtMost2 ==
    (pc = "hor_done" /\ AllOrdersAtMost2(net.react_stoic)) =>
        \A i \in 1..Len(net.react_stoic) :
            HOR[i] = (IF HighestOrder(net.react_stoic, i) = 2
                         /\ CoefInOrder2(net.react_stoic, i, 2)
                      THEN -2
                      ELSE HighestOrder(net.react_stoic, i))

C16_Witness ==
    /\ pc = "hor_done"
    /\ AllOrdersAtMost2(net.react_stoic)
    /\ \E i, k \in 1..Len(net.react_stoic) : HOR[i] = -2 /\ HOR[k] = 2

\* C17: a call that has ended has returned one status code, and the cursor
\* never passes max_iter while the loop runs.
C17_EndsWithStatus ==
    /\ pc = "done" => (exc = "none" /\ status \in {1, 2, 3, -2, -3})
    /\ pc = "loop" => ite <= max_iter

\* C18: on a network with a reaction that net-consumes nothing, no pass
\* fails in the criticality computation, and such a reaction is never among
\* the critical ones.
C18_NoConsumptionNotCritical ==
    LRaises(net) =>
        /\ exc # "ValueError"
        /\ \A j \in step.crit : Consumed(NetStoic(net), j) # {}

====
